---- MODULE Spec2Model ----
(***************************************************************************)
(* Model of rns510_code_finder.py: the RNS510CodeFinder engine (serial     *)
(* port lifecycle, command framing, response classification, the scan      *)
(* loop of find_code) together with its environment: the serial transport, *)
(* the device behind it, the driver that calls find_code / close_port and  *)
(* the external controller that sets stop_count.                           *)
(*                                                                         *)
(* Text is modelled as a sequence of fragments.  The fragments are chosen  *)
(* so that Python's substring test on the real text and the subsequence    *)
(* test on the fragments agree: "Hash valid" is <<"Hash ", "valid">> and   *)
(* "Hash invalid" is <<"Hash ", "in", "valid">>.  A PIN and a command are  *)
(* sequences of one-character strings and punctuation fragments.           *)
(***************************************************************************)
EXTENDS Integers, Sequences, FiniteSets, TLC

VARIABLES
    is_open,     \* serial_port.is_open
    stop_count,  \* self.stop_count, the cancellation flag
    pin,         \* self.pin, the recorded PIN
    rx,          \* self.rx, the receive buffer
    inbuf,       \* transport: bytes waiting to be read (in_waiting of them)
    unanswered,  \* device: commands received and not yet answered
    pc,          \* position of the thread running find_code
    start,       \* find_code argument
    stop,        \* find_code argument
    i,           \* loop variable of find_code
    result,      \* how the loop of the current / last find_code ended
    escaped,     \* an exception left the current / last find_code
    failed_at,   \* the call that raised in the current / last find_code
    ever_open,   \* the port has been open at some time
    sent,        \* frames written to the port by the current / last find_code
    log,         \* logging records emitted since the last find_code call
    verdicts,    \* return values of verify_pin in the current / last find_code
    resp,        \* what the device answered, per command of this find_code
    prompt,      \* every read so far found its own command answered
    rx0,         \* rx when the current / last find_code was called
    pin0,        \* pin when the current / last find_code was called
    cancelSent,  \* Len(sent) when stop_count was set between probes, else -1
    stopMark,    \* where this find_code was when stop_count was set
    phases,      \* the states this find_code has passed through
    closeRun,    \* [calls, events] of the current run of close_port calls
    scans,       \* find_code invocations that have returned
    total_sent   \* commands written over all invocations

vars == <<is_open, stop_count, pin, rx, inbuf, unanswered, pc, start, stop, i,
          result, escaped, failed_at, ever_open, sent, log, verdicts, resp, prompt,
          rx0, pin0, cancelSent, stopMark, phases, closeRun, scans, total_sent>>

----------------------------------------------------------------------------
(* Bounds of the model *)

MaxProbes == 3
MaxScans == 2
MaxCloseCalls == 2

(* Program constants *)

PinWidth == 4

\* the largest number with a PinWidth-digit form
MaxPin == 10 ^ PinWidth - 1

----------------------------------------------------------------------------
(* Text *)

HASH_VALID == <<"Hash ", "valid">>
HASH_INVALID == <<"Hash ", "in", "valid">>

\* Python's `sub in s` for str
Contains(s, sub) ==
    \E k \in 1..(Len(s) - Len(sub) + 1) : SubSeq(s, k, k + Len(sub) - 1) = sub

Digit == <<"0", "1", "2", "3", "4", "5", "6", "7", "8", "9">>
DigitChars == {Digit[k] : k \in 1..10}

RECURSIVE StrNat(_)
StrNat(n) == IF n < 10 THEN <<Digit[n + 1]>>
             ELSE StrNat(n \div 10) \o <<Digit[(n % 10) + 1]>>

\* Python's str(i) for an int
Str(n) == IF n < 0 THEN <<"-">> \o StrNat(-n) ELSE StrNat(n)

Zeros(n) == [k \in 1..n |-> "0"]

\* s.rjust(width) in place of s.zfill(width)
zfill_rjust(s, width) ==
    IF Len(s) >= width THEN s ELSE [k \in 1..(width - Len(s)) |-> " "] \o s

\* Python's s.zfill(width): pad after a leading sign, never truncate
zfill(s, width) ==
    IF Len(s) >= width THEN s
    ELSE IF Len(s) > 0 /\ s[1] \in {"+", "-"}
         THEN <<s[1]>> \o Zeros(width - Len(s)) \o Tail(s)
         ELSE Zeros(width - Len(s)) \o s

\* str(i).zfill(4), the candidate of iteration i
Candidate(n) == zfill(Str(n), PinWidth)

\* f"TpPvVerifyPin({pin})"
VerifyCommand(p) == <<"TpPvVerifyPin(">> \o p \o <<")">>

\* f"{command}\n".encode("utf-8"): what send_command writes
Frame(command) == command \o <<"\n">>

----------------------------------------------------------------------------
(* Inputs and environment *)

\* --start values of the scans explored (argparse: any int)
Starts == {-1, 9997}

\* What the device may answer to one command: a verdict, or text that holds
\* neither verdict (the first or the second half of "Hash valid")
Chunks == {HASH_VALID, HASH_INVALID, <<"Hash ">>, <<"valid">>}

\* What serial open / write / read may raise
ExcKinds == {"SerialException", "Exception"}

Rec(level, msg, arg) == [level |-> level, msg |-> msg, arg |-> arg]

OpenedRec == Rec("info", "Opened serial port", <<>>)
ClosedRec == Rec("info", "Closed serial port", <<>>)
StoppedRec == Rec("info", "Process stopped by user.", <<>>)
TryingRec(p) == Rec("info", "Trying code", p)
FoundRec(p) == Rec("info", "Code found", p)
InvalidRec(p) == Rec("info", "Code is invalid.", p)
NoResponseRec(p) == Rec("warning", "No response for code, retrying...", p)
ErrorRec(e) ==
    IF e = "SerialException"
    THEN Rec("error", "Serial communication error", <<>>)
    ELSE Rec("error", "An unexpected error occurred", <<>>)

Count(s, x) == Cardinality({k \in 1..Len(s) : s[k] = x})

\* stop_count was not set during this find_code, nor before it
NoMark == [pc |-> "none", sent |-> 0, probes |-> 0]

----------------------------------------------------------------------------
(* Initial state: the engine after __init__.  pyserial opens the port in   *)
(* the constructor when a port name is given; a transport double need not. *)

Init ==
    /\ is_open \in BOOLEAN
    /\ ever_open = is_open
    /\ failed_at = "none"
    /\ stop_count = FALSE
    /\ pin = <<"0", "0", "0", "0">>
    /\ rx = <<>>
    /\ inbuf = <<>>
    /\ unanswered = 0
    /\ pc = "idle"
    /\ start = 0
    /\ stop = 0
    /\ i = 0
    /\ result = "none"
    /\ escaped = FALSE
    /\ sent = <<>>
    /\ log = <<>>
    /\ verdicts = <<>>
    /\ resp = <<>>
    /\ prompt = TRUE
    /\ rx0 = <<>>
    /\ pin0 = <<"0", "0", "0", "0">>
    /\ cancelSent = -1
    /\ stopMark = NoMark
    /\ phases = <<>>
    /\ closeRun = [calls |-> 0, events |-> 0]
    /\ scans = 0
    /\ total_sent = 0

----------------------------------------------------------------------------
(* Engine operations *)

\* close_port without the is_open test
close_port_unguarded ==
    /\ is_open' = FALSE
    /\ inbuf' = <<>>
    /\ unanswered' = 0
    /\ log' = Append(log, ClosedRec)
    /\ closeRun' = [calls |-> closeRun.calls + 1, events |-> closeRun.events + 1]

\* close_port that forgets to close
close_port_noop ==
    /\ UNCHANGED <<is_open, inbuf, unanswered, log>>
    /\ closeRun' = [closeRun EXCEPT !.calls = @ + 1]

close_port ==
    IF is_open
    THEN /\ is_open' = FALSE
         /\ inbuf' = <<>>
         /\ unanswered' = 0
         /\ log' = Append(log, ClosedRec)
         /\ closeRun' = [calls |-> closeRun.calls + 1, events |-> closeRun.events + 1]
    ELSE /\ UNCHANGED <<is_open, inbuf, unanswered, log>>
         /\ closeRun' = [closeRun EXCEPT !.calls = @ + 1]

\* the except clauses of find_code
CaughtSerialOnly(e) == e = "SerialException"

Caught(e) == e \in {"SerialException", "Exception"}

\* a handler that logs and raises again
RaiseAgain(e, l, where) ==
    /\ log' = Append(l, ErrorRec(e))
    /\ escaped' = TRUE
    /\ failed_at' = where
    /\ result' = "failed"
    /\ phases' = Append(phases, "Failed")
    /\ pc' = "finally"

\* an exception e raised by the call `where` inside the try block, the log
\* so far being l: the matching except clause logs it, then the finally runs
Raise(e, l, where) ==
    /\ IF Caught(e)
       THEN log' = Append(l, ErrorRec(e)) /\ escaped' = FALSE
       ELSE log' = l /\ escaped' = TRUE
    /\ failed_at' = where
    /\ result' = "failed"
    /\ phases' = Append(phases, "Failed")
    /\ pc' = "finally"

\* a classification with no None: whatever is not valid is invalid
ClassifyNoNone(response) ==
    IF Contains(response, HASH_VALID) THEN "True" ELSE "False"

\* verify_pin's classification of the buffer, testing "Hash invalid" first
ClassifyInvalidFirst(response) ==
    IF Contains(response, HASH_INVALID) THEN "False"
    ELSE IF Contains(response, HASH_VALID) THEN "True"
    ELSE "None"

Classify(response) ==
    IF Contains(response, HASH_VALID) THEN "True"
    ELSE IF Contains(response, HASH_INVALID) THEN "False"
    ELSE "None"

\* the test of the cancellation flag at the top of the loop body
StopRequestedNever == FALSE

\* the flag polled before the first iteration only
StopRequestedAtStart == stop_count /\ i = start

StopRequested == stop_count

\* read_response that keeps only what it has just read
ReceivedReplace(buf, new) == new

\* read_response that drops the old content when new bytes arrive
ReceivedLatest(buf, new) == IF new = <<>> THEN buf ELSE new

\* self.rx += serial_port.read(in_waiting).decode("utf-8")
Received(buf, new) == buf \o new

\* self.pin assigned for every candidate tried
RecordedPinAlways(valid, p, old) == p

\* self.pin after the branch on verify_pin's return value
RecordedPin(valid, p, old) == IF valid = "True" THEN p ELSE old

\* the driver calls find_code(s, t)
FindCode(s, t) ==
    /\ pc = "idle"
    /\ scans < MaxScans
    /\ t - s + 1 <= MaxProbes - total_sent
    /\ pc' = "open"
    /\ start' = s
    /\ stop' = t
    /\ i' = s
    /\ result' = "none"
    /\ escaped' = FALSE
    /\ failed_at' = "none"
    /\ sent' = <<>>
    /\ log' = <<>>
    /\ verdicts' = <<>>
    /\ resp' = <<>>
    /\ prompt' = TRUE
    /\ rx0' = rx
    /\ pin0' = pin
    /\ cancelSent' = IF stop_count THEN 0 ELSE -1
    /\ stopMark' = IF stop_count THEN [pc |-> "call", sent |-> 0, probes |-> 0]
                                 ELSE NoMark
    /\ phases' = <<"Opening">>
    /\ closeRun' = [calls |-> 0, events |-> 0]
    /\ UNCHANGED <<is_open, ever_open, stop_count, pin, rx, inbuf, unanswered, scans,
                   total_sent>>

\* open_port returns
OpenPort ==
    /\ pc = "open"
    /\ IF is_open
       THEN UNCHANGED <<is_open, ever_open, inbuf, log>>
       ELSE /\ is_open' = TRUE
            /\ ever_open' = TRUE
            /\ inbuf' = <<>>
            /\ log' = Append(log, OpenedRec)
    /\ pc' = "loop"
    /\ phases' = Append(phases, "Probing")
    /\ UNCHANGED <<stop_count, pin, rx, unanswered, start, stop, i, result, escaped,
                   failed_at, sent, verdicts, resp, prompt, rx0, pin0, cancelSent,
                   stopMark, closeRun, scans, total_sent>>

\* serial_port.open() raises
OpenFail(e) ==
    /\ pc = "open"
    /\ ~is_open
    /\ Raise(e, log, "open")
    /\ UNCHANGED <<is_open, stop_count, pin, rx, inbuf, unanswered, start, stop, i,
                   sent, verdicts, resp, prompt, rx0, pin0, cancelSent, closeRun,
                   scans, total_sent>>
    /\ UNCHANGED <<ever_open, stopMark>>

\* range(start, stop + 1) is exhausted
LoopExhausted ==
    /\ pc = "loop"
    /\ i > stop
    /\ result' = "exhausted"
    /\ phases' = Append(phases, "Exhausted")
    /\ pc' = "finally"
    /\ UNCHANGED <<is_open, stop_count, pin, rx, inbuf, unanswered, start, stop, i,
                   escaped, sent, log, verdicts, resp, prompt, rx0, pin0, cancelSent,
                   closeRun, scans, total_sent>>
    /\ UNCHANGED <<failed_at, ever_open, stopMark>>

\* the flag is seen at the top of the loop body
LoopStopped ==
    /\ pc = "loop"
    /\ i <= stop
    /\ StopRequested
    /\ log' = Append(log, StoppedRec)
    /\ result' = "stopped"
    /\ phases' = Append(phases, "Stopped")
    /\ pc' = "finally"
    /\ UNCHANGED <<is_open, stop_count, pin, rx, inbuf, unanswered, start, stop, i,
                   escaped, sent, verdicts, resp, prompt, rx0, pin0, cancelSent,
                   closeRun, scans, total_sent>>
    /\ UNCHANGED <<failed_at, ever_open, stopMark>>

\* the flag is found clear: the candidate is formatted and announced
TryCandidate ==
    /\ pc = "loop"
    /\ i <= stop
    /\ ~StopRequested
    /\ log' = Append(log, TryingRec(Candidate(i)))
    /\ pc' = "send"
    /\ UNCHANGED <<is_open, stop_count, pin, rx, inbuf, unanswered, start, stop, i,
                   result, escaped, sent, verdicts, resp, prompt, rx0, pin0,
                   cancelSent, closeRun, scans, total_sent>>
    /\ UNCHANGED <<failed_at, ever_open, stopMark, phases>>

\* verify_pin writes the command of the candidate
SendCommand ==
    /\ pc = "send"
    /\ sent' = Append(sent, Frame(VerifyCommand(Candidate(i))))
    /\ total_sent' = total_sent + 1
    /\ unanswered' = unanswered + 1
    /\ pc' = "sleep"
    /\ UNCHANGED <<is_open, stop_count, pin, rx, inbuf, start, stop, i, result,
                   escaped, log, verdicts, resp, prompt, rx0, pin0, cancelSent,
                   closeRun, scans>>
    /\ UNCHANGED <<failed_at, ever_open, stopMark, phases>>

\* serial_port.write raises
SendFail(e) ==
    /\ pc = "send"
    /\ Raise(e, log, "write")
    /\ UNCHANGED <<is_open, stop_count, pin, rx, inbuf, unanswered, start, stop, i,
                   sent, verdicts, resp, prompt, rx0, pin0, cancelSent, closeRun,
                   scans, total_sent>>
    /\ UNCHANGED <<ever_open, stopMark>>

\* after the sleep: read_response, the classification and the loop's branch
ReadResponse ==
    /\ pc = "sleep"
    /\ rx' = Received(rx, inbuf)
    /\ inbuf' = <<>>
    /\ prompt' = (prompt /\ unanswered = 0)
    /\ verdicts' = Append(verdicts, Classify(rx'))
    /\ LET valid == Classify(rx')
           p == Candidate(i)
       IN  IF valid = "True"
           THEN /\ log' = Append(log, FoundRec(p))
                /\ pin' = RecordedPin(valid, p, pin)
                /\ result' = "found"
                /\ phases' = Append(phases, "Found")
                /\ pc' = "finally"
                /\ i' = i
           ELSE /\ log' = Append(log, IF valid = "False" THEN InvalidRec(p)
                                                        ELSE NoResponseRec(p))
                /\ pin' = RecordedPin(valid, p, pin)
                /\ result' = result
                /\ phases' = phases
                /\ pc' = "loop"
                /\ i' = i + 1
    /\ UNCHANGED <<is_open, stop_count, unanswered, start, stop, escaped, sent, resp,
                   rx0, pin0, cancelSent, closeRun, scans, total_sent>>
    /\ UNCHANGED <<failed_at, ever_open, stopMark>>

\* in_waiting / read / decode raises
ReadFail(e) ==
    /\ pc = "sleep"
    /\ Raise(e, log, "read")
    /\ prompt' = (prompt /\ unanswered = 0)
    /\ UNCHANGED <<is_open, stop_count, pin, rx, inbuf, unanswered, start, stop, i,
                   sent, verdicts, resp, rx0, pin0, cancelSent, closeRun, scans,
                   total_sent>>
    /\ UNCHANGED <<ever_open, stopMark>>

\* the finally clause, and find_code returns (or the exception leaves it)
Finally ==
    /\ pc = "finally"
    /\ close_port
    /\ pc' = "idle"
    /\ scans' = scans + 1
    /\ phases' = Append(phases, IF is_open' THEN "Open" ELSE "Closed")
    /\ UNCHANGED <<stop_count, pin, rx, start, stop, i, result, escaped, sent,
                   verdicts, resp, prompt, rx0, pin0, cancelSent, total_sent>>
    /\ UNCHANGED <<failed_at, ever_open, stopMark>>

----------------------------------------------------------------------------
(* Environment *)

\* the driver calls close_port (the finally clause of __main__)
ClosePort ==
    /\ pc = "idle"
    /\ closeRun.calls < MaxCloseCalls
    /\ close_port
    /\ UNCHANGED <<stop_count, pin, rx, pc, start, stop, i, result, escaped, sent,
                   verdicts, resp, prompt, rx0, pin0, cancelSent, scans, total_sent>>
    /\ UNCHANGED <<failed_at, ever_open, stopMark, phases>>

\* an external controller sets the flag
SetStop ==
    /\ ~stop_count
    /\ stop_count' = TRUE
    /\ cancelSent' = IF pc \in {"open", "loop"} THEN Len(sent) ELSE cancelSent
    /\ stopMark' = IF pc \in {"open", "loop", "send", "sleep"}
                   THEN [pc |-> pc, sent |-> Len(sent), probes |-> Len(verdicts)]
                   ELSE stopMark
    /\ UNCHANGED <<is_open, pin, rx, inbuf, unanswered, pc, start, stop, i, result,
                   escaped, sent, log, verdicts, resp, prompt, rx0, pin0, closeRun,
                   scans, total_sent>>
    /\ UNCHANGED <<failed_at, ever_open, phases>>

\* the device answers the oldest unanswered command
DeviceRespond(chunk) ==
    /\ is_open
    /\ unanswered > 0
    /\ inbuf' = inbuf \o chunk
    /\ unanswered' = unanswered - 1
    /\ resp' = Append(resp, chunk)
    /\ UNCHANGED <<is_open, stop_count, pin, rx, pc, start, stop, i, result, escaped,
                   sent, log, verdicts, prompt, rx0, pin0, cancelSent, closeRun,
                   scans, total_sent>>
    /\ UNCHANGED <<failed_at, ever_open, stopMark, phases>>

Next ==
    \/ \E s \in Starts : \E t \in (s - 1)..(s + MaxProbes - 1) : FindCode(s, t)
    \/ OpenPort
    \/ \E e \in ExcKinds : OpenFail(e)
    \/ LoopExhausted
    \/ LoopStopped
    \/ TryCandidate
    \/ SendCommand
    \/ \E e \in ExcKinds : SendFail(e)
    \/ ReadResponse
    \/ \E e \in ExcKinds : ReadFail(e)
    \/ Finally
    \/ ClosePort
    \/ SetStop
    \/ \E c \in Chunks : DeviceRespond(c)

Spec == Init /\ [][Next]_vars

----------------------------------------------------------------------------
(* Vocabulary of the properties *)

\* find_code has been called and has returned
Returned == pc = "idle" /\ scans > 0

\* the <pin> of a frame TpPvVerifyPin(<pin>)\n
PinOf(frame) == SubSeq(frame, 2, Len(frame) - 2)

SentPins == [k \in 1..Len(sent) |-> PinOf(sent[k])]

\* the candidate numbers a, a+1, ..., b
Numbers(a, b) == [k \in 1..(b - a + 1) |-> a + k - 1]

AllDigits(s) == \A k \in 1..Len(s) : s[k] \in DigitChars

\* the number a string of decimal digits denotes
RECURSIVE DecVal(_)
DecVal(s) ==
    IF Len(s) = 0 THEN 0
    ELSE 10 * DecVal(SubSeq(s, 1, Len(s) - 1))
         + (CHOOSE d \in 0..9 : Digit[d + 1] = s[Len(s)])

\* s is the 4-digit form of n
FourDigitForm(s, n) == Len(s) = PinWidth /\ AllDigits(s) /\ DecVal(s) = n

\* the k-th command of this find_code was sent for candidate number start+k-1
SentFor(a, b) ==
    /\ Len(sent) = b - a + 1
    /\ \A k \in 1..Len(sent) :
          /\ sent[k][1] = "TpPvVerifyPin("
          /\ (a + k - 1 \in 0..MaxPin => FourDigitForm(PinOf(sent[k]), a + k - 1))

\* a is an initial part of b
IsPrefix(a, b) == Len(a) <= Len(b) /\ SubSeq(b, 1, Len(a)) = a

\* the part of the buffer received since this find_code was called
OwnBytes == SubSeq(rx, Len(rx0) + 1, Len(rx))

Inconclusive(chunk) ==
    ~Contains(chunk, HASH_VALID) /\ ~Contains(chunk, HASH_INVALID)

\* the device answered "Hash valid" to the command for p and "Hash invalid"
\* to every other command, each answer before the read of its own probe
OracleFor(p) ==
    /\ prompt
    /\ \A k \in 1..Len(resp) :
          resp[k] = IF start + k - 1 = p THEN HASH_VALID ELSE HASH_INVALID

----------------------------------------------------------------------------
(* C1: whenever find_code has returned, however its loop ended (found,     *)
(* exhausted, stopped, failed in open / write / read), the port is closed. *)
C1_ClosedOnReturn ==
    Returned => (~is_open /\ result \in {"found", "exhausted", "stopped", "failed"})

C1_Witness ==
    /\ Returned
    /\ result = "failed"
    /\ failed_at = "read"
    /\ Count(log, OpenedRec) = 1
    /\ Count(log, ClosedRec) = 1
    /\ ~is_open

(* C2: with a device that answers "Hash valid" to the command for p, p in  *)
(* start..stop and 0..9999, and "Hash invalid" to every other command,     *)
(* each before the read of its probe, no cancellation, no transport        *)
(* failure and no "Hash valid" left in the buffer from before the call,    *)
(* find_code returns with the recorded PIN the 4-digit form of p, having   *)
(* sent exactly the commands for start..p in ascending order.              *)
C2_FindsOracleSecret ==
    \A p \in start..stop :
        ( /\ Returned
          /\ p \in 0..MaxPin
          /\ OracleFor(p)
          /\ ~stop_count
          /\ result # "failed"
          /\ ~Contains(rx0, HASH_VALID) )
        => ( /\ result = "found"
             /\ FourDigitForm(pin, p)
             /\ SentFor(start, p)
             /\ verdicts = [k \in 1..(p - start + 1) |->
                               IF k = p - start + 1 THEN "True" ELSE "False"] )

C2_Witness ==
    /\ Returned
    /\ start = 9997
    /\ stop = 9999
    /\ resp = <<HASH_INVALID, HASH_VALID>>
    /\ prompt
    /\ result = "found"
    /\ pin = <<"9", "9", "9", "8">>
    /\ Len(sent) = 2

(* C3 as stated: when no answer of the device contains "Hash valid" or     *)
(* "Hash invalid" (fresh engine, prompt answers, no cancellation, no       *)
(* failure), find_code sends one command per integer of start..stop, in    *)
(* order, and ends exhausted with no PIN recorded.                         *)
C3_InconclusiveExhausts ==
    ( /\ Returned
      /\ start \in 0..MaxPin
      /\ stop <= MaxPin
      /\ rx0 = <<>>
      /\ prompt
      /\ \A k \in 1..Len(resp) : Inconclusive(resp[k])
      /\ ~stop_count
      /\ result # "failed" )
    => ( /\ result = "exhausted"
         /\ SentFor(start, stop)
         /\ pin = pin0 )

(* C4 as stated: verify_pin returns one of True / False / None; True iff   *)
(* the buffer contains "Hash valid"; False iff it contains "Hash invalid"; *)
(* None otherwise.                                                         *)
C4_ClassifyAsStated ==
    Len(verdicts) > 0 =>
        LET v == verdicts[Len(verdicts)] IN
        /\ v \in {"True", "False", "None"}
        /\ (v = "True") <=> Contains(rx, HASH_VALID)
        /\ (v = "False") <=> Contains(rx, HASH_INVALID)
        /\ (v = "None") <=> (~Contains(rx, HASH_VALID) /\ ~Contains(rx, HASH_INVALID))

(* C4 amended: verify_pin returns one of True / False / None; True iff the *)
(* buffer contains "Hash valid"; False iff it contains "Hash invalid" and  *)
(* does not contain "Hash valid"; None iff it contains neither.            *)
C4_ClassifyValidFirst ==
    Len(verdicts) > 0 =>
        LET v == verdicts[Len(verdicts)] IN
        /\ v \in {"True", "False", "None"}
        /\ (v = "True") <=> Contains(rx, HASH_VALID)
        /\ (v = "False") <=> (Contains(rx, HASH_INVALID) /\ ~Contains(rx, HASH_VALID))
        /\ (v = "None") <=> (~Contains(rx, HASH_VALID) /\ ~Contains(rx, HASH_INVALID))

C4_Witness ==
    /\ Len(verdicts) = 2
    /\ verdicts = <<"False", "True">>
    /\ Contains(rx, HASH_INVALID)
    /\ Contains(rx, HASH_VALID)

(* C5: when the flag is set while the loop is between probes, k commands   *)
(* sent so far, no further command is sent; if the loop reaches candidate  *)
(* index k, find_code logs the stop record, ends stopped, leaves the       *)
(* recorded PIN as it was and returns with the port closed.                *)
C5_CancelBetweenProbes ==
    cancelSent >= 0 =>
        /\ Len(sent) = cancelSent
        /\ pin = pin0
        /\ result \notin {"found"}
        /\ Returned =>
              /\ ~is_open
              /\ (failed_at = "none" /\ start + cancelSent <= stop)
                    => (result = "stopped" /\ Count(log, StoppedRec) = 1)
              /\ (failed_at = "none" /\ start + cancelSent > stop)
                    => (result = "exhausted" /\ Count(log, StoppedRec) = 0)

C5_Witness ==
    /\ Returned
    /\ cancelSent = 1
    /\ Len(sent) = 1
    /\ stop = start + 2
    /\ result = "stopped"
    /\ Count(log, StoppedRec) = 1
    /\ ~is_open

IsError(r) == r.level = "error"

Errors == Cardinality({k \in 1..Len(log) : IsError(log[k])})

(* C6: when serial open raises, find_code logs one error, sends no         *)
(* command, lets no exception out, and the close_port of its finally       *)
(* clause (and any close_port after it) finds the port closed and does     *)
(* nothing: no close of the transport, no "Closed" record.                 *)
C6_OpenFailureContained ==
    (Returned /\ failed_at = "open") =>
        /\ ~escaped
        /\ Errors = 1
        /\ IsError(log[Len(log)])
        /\ sent = <<>>
        /\ ~is_open
        /\ closeRun.calls >= 1
        /\ closeRun.events = 0
        /\ Count(log, ClosedRec) = 0

C6_Witness ==
    /\ Returned
    /\ failed_at = "open"
    /\ ~ever_open
    /\ log = <<ErrorRec("SerialException")>>
    /\ closeRun = [calls |-> 2, events |-> 0]

(* C7: when write or read raises while candidate i is probed, find_code    *)
(* logs one error, sends no command for a later candidate, records no PIN, *)
(* lets no exception out and returns with the port closed.                 *)
C7_ProbeFailureContained ==
    failed_at \in {"write", "read"} =>
        /\ pc \in {"finally", "idle"}
        /\ result = "failed"
        /\ ~escaped
        /\ Errors = 1
        /\ pin = pin0
        /\ Len(sent) = (i - start) + (IF failed_at = "read" THEN 1 ELSE 0)
        /\ Returned => (~is_open /\ IsError(log[Len(log) - closeRun.events]))

C7_Witness ==
    /\ Returned
    /\ failed_at = "write"
    /\ i = start + 1
    /\ stop = start + 2
    /\ Len(sent) = 1
    /\ Errors = 1
    /\ ~is_open

(* C8 as stated: every frame written is TpPvVerifyPin(<pin>) and one       *)
(* newline with <pin> exactly 4 characters, all decimal digits, whatever   *)
(* start and stop are.                                                     *)
C8_FramesCarryFourDigits ==
    \A k \in 1..Len(sent) :
        /\ Len(sent[k]) = PinWidth + 3
        /\ sent[k][1] = "TpPvVerifyPin("
        /\ Len(PinOf(sent[k])) = PinWidth
        /\ AllDigits(PinOf(sent[k]))
        /\ sent[k][Len(sent[k]) - 1] = ")"
        /\ sent[k][Len(sent[k])] = "\n"

(* C9: for every p in 0..9999 the candidate find_code sends for p is 4     *)
(* characters long, all decimal digits, and denotes p in decimal; being    *)
(* decoded back to p, the candidates of distinct p are distinct.           *)
C9_CandidateIsFourDigitForm ==
    (pc = "sleep" /\ i \in 0..MaxPin) =>
        LET c == PinOf(sent[Len(sent)]) IN
        /\ Len(c) = PinWidth
        /\ AllDigits(c)
        /\ DecVal(c) = i
        /\ log[Len(log)] = TryingRec(c)

C9_Witness ==
    /\ pc = "sleep"
    /\ i = 42
    /\ PinOf(sent[Len(sent)]) = <<"0", "0", "4", "2">>

(* C10: in a run of consecutive close_port calls, from any state of the    *)
(* port, the port is closed after each call and at most one "Closed"       *)
(* record is emitted; a close_port after the one of find_code's finally    *)
(* clause emits none.                                                      *)
C10_CloseIdempotent ==
    /\ closeRun.events <= 1
    /\ closeRun.calls > 0 => ~is_open
    /\ closeRun.events = Count(log, ClosedRec)

C10_Witness ==
    /\ Returned
    /\ closeRun = [calls |-> 2, events |-> 1]
    /\ log[Len(log)] = ClosedRec
    /\ result = "exhausted"

(* C11 as stated: the buffer a scan classifies holds only bytes received   *)
(* during that scan, so a verdict of verify_pin is decided by those bytes  *)
(* alone: nothing received during an earlier find_code is part of it.      *)
C11_BufferScopedToScan ==
    (Len(verdicts) > 0 /\ start \in 0..MaxPin /\ stop <= MaxPin) =>
        LET v == verdicts[Len(verdicts)] IN
        /\ rx = OwnBytes
        /\ (v = "True") => Contains(OwnBytes, HASH_VALID)
        /\ (v = "False") => Contains(OwnBytes, HASH_INVALID)

(* C12 as stated: when find_code records a found PIN, the device answered  *)
(* "Hash valid" to the command of that very candidate (fresh engine, every *)
(* answer of the device a whole verdict, whenever it arrives).             *)
C12_FoundPinWasAnsweredValid ==
    ( /\ result = "found"
      /\ start \in 0..MaxPin
      /\ stop <= MaxPin
      /\ rx0 = <<>>
      /\ \A k \in 1..Len(resp) : resp[k] \in {HASH_VALID, HASH_INVALID} )
    => ( /\ pin = PinOf(sent[Len(sent)])
         /\ Len(resp) = Len(sent)
         /\ resp[Len(sent)] = HASH_VALID )

(* C13: the buffer only grows by appending: every step leaves the old      *)
(* content a prefix of the new one, a read appends exactly the bytes that  *)
(* were waiting (none waiting: buffer unchanged) and verify_pin classifies *)
(* the whole accumulated buffer; nothing shortens or clears it.            *)
C13_BufferAppendOnly ==
    [][ /\ IsPrefix(rx, rx')
        /\ Len(verdicts') = Len(verdicts) + 1 =>
              /\ rx' = rx \o inbuf
              /\ inbuf = <<>> => rx' = rx
              /\ (verdicts'[Len(verdicts')] = "None") <=>
                    (~Contains(rx \o inbuf, HASH_VALID) /\ ~Contains(rx \o inbuf, HASH_INVALID))
      ]_vars

C13_Witness ==
    /\ pc = "loop"
    /\ Len(verdicts) = 2
    /\ resp = <<HASH_INVALID, <<"Hash ">>>>
    /\ rx = HASH_INVALID \o <<"Hash ">>
    /\ rx0 = <<>>

VerdictRec(v, p) ==
    IF v = "True" THEN FoundRec(p)
    ELSE IF v = "False" THEN InvalidRec(p)
    ELSE NoResponseRec(p)

(* C15: when the cancellation flag is set at any moment of a running scan  *)
(* (while the port is being opened, at the loop head, between the flag     *)
(* check and the write, or during the settle delay), the only command sent *)
(* afterwards is that of an iteration which had already passed its flag    *)
(* check; so at most one probe completes after the flag is set, and the    *)
(* result of that probe is acted on: it is logged, and a valid one is      *)
(* recorded as the found PIN and ends the scan as found.                   *)
C15_CancelAnyMoment ==
    stopMark.pc \in {"open", "loop", "send", "sleep"} =>
        LET moreSent == Len(sent) - stopMark.sent
            moreProbes == Len(verdicts) - stopMark.probes
        IN  /\ stop_count
            /\ moreSent <= (IF stopMark.pc = "send" THEN 1 ELSE 0)
            /\ moreProbes <= (IF stopMark.pc \in {"send", "sleep"} THEN 1 ELSE 0)
            /\ moreProbes = 1 =>
                  LET v == verdicts[Len(verdicts)]
                      p == PinOf(sent[Len(sent)])
                  IN  /\ Count(log, VerdictRec(v, p)) = 1
                      /\ (v = "True") => (result = "found" /\ pin = p)
                      /\ (v # "True") => (pin = pin0 /\ result # "found")
                      /\ (v # "True" /\ Returned) =>
                            result = (IF start + Len(sent) <= stop THEN "stopped"
                                                                   ELSE "exhausted")

C15_Witness ==
    /\ Returned
    /\ stopMark = [pc |-> "send", sent |-> 1, probes |-> 1]
    /\ Len(sent) = 2
    /\ verdicts = <<"False", "True">>
    /\ result = "found"
    /\ pin = PinOf(sent[2])
    /\ stop > start + 1


(* C17: the engine never writes the cancellation flag.  A step that        *)
(* changes stop_count is a step of the external controller alone (no       *)
(* engine position, port state, buffer, pin or log changes with it), and   *)
(* once set the flag stays set through open, send, read, verify_pin,       *)
(* find_code and close.  A find_code called with the flag already set      *)
(* sends no command and classifies nothing: it opens the connection, sees  *)
(* the flag at the first iteration, logs the stop and closes the           *)
(* connection again.                                                       *)
C17_FlagNeverWritten ==
    /\ [][stop_count => stop_count']_vars
    /\ [][stop_count' # stop_count =>
              UNCHANGED <<pc, is_open, inbuf, sent, rx, pin, log, closeRun, scans>>]_vars
    /\ [](stopMark.pc = "call" =>
            /\ stop_count
            /\ sent = <<>>
            /\ verdicts = <<>>
            /\ pin = pin0
            /\ Count(log, TryingRec(Candidate(start))) = 0
            /\ (Returned /\ failed_at = "none") =>
                  /\ ~is_open
                  /\ phases = <<"Opening", "Probing",
                                IF start <= stop THEN "Stopped" ELSE "Exhausted",
                                "Closed">>
                  /\ Count(log, ClosedRec) = 1
                  /\ Count(log, StoppedRec) = (IF start <= stop THEN 1 ELSE 0))

C17_Witness ==
    /\ Returned
    /\ scans = 2
    /\ total_sent = 1
    /\ stopMark.pc = "call"
    /\ stop_count
    /\ sent = <<>>
    /\ start < stop
    /\ result = "stopped"
    /\ log = <<OpenedRec, StoppedRec, ClosedRec>>
    /\ ~is_open

----------------------------------------------------------------------------
(* The formatting of every representable candidate: a first scan of the    *)
(* single candidate p, for every p in 0..9999, with a silent device.       *)

\* the driver's first call is find_code(p, p)
FindCodeSingle ==
    /\ pc = "idle"
    /\ scans = 0
    /\ \E p \in 0..MaxPin : FindCode(p, p)

NextFmt ==
    \/ FindCodeSingle
    \/ OpenPort
    \/ TryCandidate
    \/ SendCommand
    \/ ReadResponse
    \/ LoopExhausted
    \/ Finally

SpecFmt == Init /\ [][NextFmt]_vars

----------------------------------------------------------------------------
(* A third specification, for termination: one find_code call on the       *)
(* engine, with the device and the external controller free to act at any  *)
(* moment.  find_code is sequential code whose only wait is the fixed      *)
(* settle delay, and every transport call returns or raises, so whenever   *)
(* the engine has a next step it eventually takes one: weak fairness on    *)
(* the steps of the engine, none on the environment.                       *)

FindCodeOnce ==
    /\ pc = "idle"
    /\ scans = 0
    /\ \E s \in Starts : \E t \in (s - 1)..(s + MaxProbes - 1) : FindCode(s, t)

\* the steps of find_code between its call and its return
EngineStep ==
    \/ OpenPort
    \/ \E e \in ExcKinds : OpenFail(e)
    \/ LoopExhausted
    \/ LoopStopped
    \/ TryCandidate
    \/ SendCommand
    \/ \E e \in ExcKinds : SendFail(e)
    \/ ReadResponse
    \/ \E e \in ExcKinds : ReadFail(e)
    \/ Finally

NextLive ==
    \/ FindCodeOnce
    \/ EngineStep
    \/ SetStop
    \/ \E c \in Chunks : DeviceRespond(c)

SpecLive == Init /\ [][NextLive]_vars /\ WF_vars(EngineStep)

Terminals == {"Found", "Exhausted", "Stopped", "Failed"}

\* the phases of an invocation that has reached a terminal state
Terminated == \E k \in 1..Len(phases) : phases[k] \in Terminals

(* C16 as stated: every find_code that has returned went                   *)
(* Opening, Probing, one terminal state, Closed.                           *)
C16_ThroughProbing ==
    Returned => \E t \in Terminals : phases = <<"Opening", "Probing", t, "Closed">>

(* C16: every find_code over a finite range terminates.  It passes through *)
(* Opening and, unless opening the connection fails, Probing, to exactly   *)
(* one of Found, Exhausted, Stopped, Failed (Found and Stopped and         *)
(* Exhausted only from Probing), and from that terminal state it always    *)
(* eventually reaches Closed and returns; once a terminal state is reached *)
(* no further command is sent and no further probe is classified in that   *)
(* invocation.                                                             *)
C16_TerminatesThroughPhases ==
    /\ [](pc # "idle" =>
            \/ phases \in {<<"Opening">>, <<"Opening", "Probing">>,
                           <<"Opening", "Failed">>}
            \/ \E t \in Terminals : phases = <<"Opening", "Probing", t>>)
    /\ [](Returned =>
            \/ phases = <<"Opening", "Failed", "Closed">>
            \/ \E t \in Terminals : phases = <<"Opening", "Probing", t, "Closed">>)
    /\ [](Returned => /\ ~is_open
                      /\ (result = "found") = (phases[Len(phases) - 1] = "Found")
                      /\ (result = "exhausted") = (phases[Len(phases) - 1] = "Exhausted")
                      /\ (result = "stopped") = (phases[Len(phases) - 1] = "Stopped")
                      /\ (result = "failed") = (phases[Len(phases) - 1] = "Failed"))
    /\ [][(Terminated /\ pc # "idle") => (sent' = sent /\ verdicts' = verdicts)]_vars
    /\ (pc = "open") ~> (Returned /\ phases[Len(phases)] = "Closed")
    /\ (pc # "idle" /\ Terminated) ~> (Returned /\ phases[Len(phases)] = "Closed")

C16_Witness ==
    /\ Returned
    /\ phases = <<"Opening", "Failed", "Closed">>
    /\ failed_at = "open"
    /\ sent = <<>>
    /\ ~is_open

====
